---- MODULE Spec2Model ----
(***************************************************************************)
(* Model of the node editing modal, src/features/modals/NodeModal.         *)
(*                                                                         *)
(* Texts (document text, edited field text, displayed text) are sequences  *)
(* of one-character strings, so that String(), Number(), JSON.parse and    *)
(* JSON.stringify are computed character by character.                     *)
(***************************************************************************)
EXTENDS Integers, Sequences, FiniteSets, TLC

(***************************************************************************)
(* JavaScript values.  Every value is a record with the same fields, the   *)
(* tag t saying which field carries it:                                    *)
(*   "undefined", "null", "boolean" (b), "number" (n), "nan",              *)
(*   "string" (s, characters), "array" (a, elements),                      *)
(*   "object" (m, members [k, v] in insertion order, keys distinct).       *)
(***************************************************************************)
JV(t, b, n, s, a, m) == [t |-> t, b |-> b, n |-> n, s |-> s, a |-> a, m |-> m]

Undefined == JV("undefined", FALSE, 0, <<>>, <<>>, <<>>)

Null == JV("null", FALSE, 0, <<>>, <<>>, <<>>)

NaN == JV("nan", FALSE, 0, <<>>, <<>>, <<>>)

Bool(b) == JV("boolean", b, 0, <<>>, <<>>, <<>>)

Num(n) == JV("number", FALSE, n, <<>>, <<>>, <<>>)

Str(s) == JV("string", FALSE, 0, s, <<>>, <<>>)

Arr(a) == JV("array", FALSE, 0, <<>>, a, <<>>)

Obj(m) == JV("object", FALSE, 0, <<>>, <<>>, m)

Member(k, v) == [k |-> k, v |-> v]

\* !v : undefined, null, false, 0, NaN and "" are falsy
Falsy(v) ==
    \/ v.t \in {"undefined", "null", "nan"}
    \/ v.t = "boolean" /\ ~v.b
    \/ v.t = "number" /\ v.n = 0
    \/ v.t = "string" /\ v.s = <<>>

\* v === null || v === undefined, the test of the ?? operator
Nullish(v) == v.t \in {"undefined", "null"}

(***************************************************************************)
(* Characters and literal texts.                                           *)
(***************************************************************************)
DigitChars == <<"0", "1", "2", "3", "4", "5", "6", "7", "8", "9">>

IsDigit(c) == \E d \in 1..10 : DigitChars[d] = c

DigitVal(c) == (CHOOSE d \in 1..10 : DigitChars[d] = c) - 1

IsWhiteSpace(c) == c \in {" ", "\t", "\n", "\r"}

TextTrue == <<"t", "r", "u", "e">>

TextFalse == <<"f", "a", "l", "s", "e">>

TextNull == <<"n", "u", "l", "l">>

TextUndefined == <<"u", "n", "d", "e", "f", "i", "n", "e", "d">>

TextObjectObject ==
    <<"[", "o", "b", "j", "e", "c", "t", " ", "O", "b", "j", "e", "c", "t", "]">>

TextEmptyObject == <<"{", "}">>

(***************************************************************************)
(* Number -> text, as String(n) and JSON.stringify(n) print an integer.    *)
(***************************************************************************)
RECURSIVE NatToText(_)
NatToText(n) ==
    IF n < 10 THEN <<DigitChars[n + 1]>>
    ELSE NatToText(n \div 10) \o <<DigitChars[(n % 10) + 1]>>

NumberToText(n) == IF n < 0 THEN <<"-">> \o NatToText(-n) ELSE NatToText(n)

(***************************************************************************)
(* String(value): the text of a value.  An array prints its elements       *)
(* joined by ",", null and undefined elements printing as nothing; an      *)
(* object prints as [object Object].                                       *)
(***************************************************************************)
RECURSIVE StringOf(_)
RECURSIVE JoinElements(_, _)
JoinElements(a, i) ==
    IF i > Len(a) THEN <<>>
    ELSE (IF i > 1 THEN <<",">> ELSE <<>>)
         \o (IF Nullish(a[i]) THEN <<>> ELSE StringOf(a[i]))
         \o JoinElements(a, i + 1)

StringOf(v) ==
    CASE v.t = "undefined" -> TextUndefined
      [] v.t = "null" -> TextNull
      [] v.t = "nan" -> <<"N", "a", "N">>
      [] v.t = "boolean" -> (IF v.b THEN TextTrue ELSE TextFalse)
      [] v.t = "number" -> NumberToText(v.n)
      [] v.t = "string" -> v.s
      [] v.t = "array" -> JoinElements(v.a, 1)
      [] OTHER -> TextObjectObject

(***************************************************************************)
(* Number(text): white space is trimmed; the empty text is 0; an           *)
(* optionally signed run of decimal digits is that integer; anything else  *)
(* is NaN.  (Fractions, exponents, radix prefixes and Infinity are built   *)
(* from characters the model's texts do not contain.)                      *)
(***************************************************************************)
RECURSIVE TrimStart(_)
TrimStart(s) ==
    IF s # <<>> /\ IsWhiteSpace(Head(s)) THEN TrimStart(Tail(s)) ELSE s

RECURSIVE TrimEnd(_)
TrimEnd(s) ==
    IF s # <<>> /\ IsWhiteSpace(s[Len(s)])
    THEN TrimEnd(SubSeq(s, 1, Len(s) - 1)) ELSE s

RECURSIVE DecimalValue(_)
DecimalValue(s) ==
    IF s = <<>> THEN 0
    ELSE 10 * DecimalValue(SubSeq(s, 1, Len(s) - 1)) + DigitVal(s[Len(s)])

AllDigits(s) == s # <<>> /\ \A i \in 1..Len(s) : IsDigit(s[i])

ToNumber(text) ==
    LET t == TrimEnd(TrimStart(text))
        signed == t # <<>> /\ Head(t) \in {"-", "+"}
        digits == IF signed THEN Tail(t) ELSE t
    IN  IF t = <<>> THEN Num(0)
        ELSE IF ~AllDigits(digits) THEN NaN
        ELSE IF signed /\ Head(t) = "-" THEN Num(0 - DecimalValue(digits))
        ELSE Num(DecimalValue(digits))

(***************************************************************************)
(* Object members: obj[k], obj[k] = v, delete obj[k].                      *)
(***************************************************************************)
HasKey(m, k) == \E i \in 1..Len(m) : m[i].k = k

KeyIndex(m, k) == CHOOSE i \in 1..Len(m) : m[i].k = k

GetMember(m, k) == IF HasKey(m, k) THEN m[KeyIndex(m, k)].v ELSE Undefined

PutMember(m, k, v) ==
    IF HasKey(m, k) THEN [m EXCEPT ![KeyIndex(m, k)].v = v]
    ELSE Append(m, Member(k, v))

DeleteMember(m, k) ==
    IF HasKey(m, k)
    THEN SubSeq(m, 1, KeyIndex(m, k) - 1) \o SubSeq(m, KeyIndex(m, k) + 1, Len(m))
    ELSE m

KeysOf(m) == {m[i].k : i \in 1..Len(m)}

(***************************************************************************)
(* JSON.stringify(value, null, 2).  ind is the indentation of the line the *)
(* value starts on.  A member whose value is undefined is left out; an     *)
(* undefined or NaN element prints as null.  (The texts of the model hold  *)
(* no quote, backslash or control character, so a string prints as its     *)
(* characters between quotes.)                                             *)
(***************************************************************************)
Serializable(m) == SelectSeq(m, LAMBDA e : e.v.t # "undefined")

RECURSIVE Serialize(_, _)
RECURSIVE SerializeElements(_, _, _)
RECURSIVE SerializeMembers(_, _, _)
SerializeElements(a, i, ind) ==
    IF i > Len(a) THEN <<>>
    ELSE (IF i > 1 THEN <<",">> ELSE <<>>) \o <<"\n">> \o ind
         \o Serialize(a[i], ind) \o SerializeElements(a, i + 1, ind)

SerializeMembers(m, i, ind) ==
    IF i > Len(m) THEN <<>>
    ELSE (IF i > 1 THEN <<",">> ELSE <<>>) \o <<"\n">> \o ind
         \o <<"\"">> \o m[i].k \o <<"\"", ":", " ">>
         \o Serialize(m[i].v, ind) \o SerializeMembers(m, i + 1, ind)

Serialize(v, ind) ==
    CASE v.t \in {"undefined", "null", "nan"} -> TextNull
      [] v.t = "boolean" -> (IF v.b THEN TextTrue ELSE TextFalse)
      [] v.t = "number" -> NumberToText(v.n)
      [] v.t = "string" -> <<"\"">> \o v.s \o <<"\"">>
      [] v.t = "array" ->
            IF v.a = <<>> THEN <<"[", "]">>
            ELSE <<"[">> \o SerializeElements(v.a, 1, ind \o <<" ", " ">>)
                 \o <<"\n">> \o ind \o <<"]">>
      [] OTHER ->
            IF Serializable(v.m) = <<>> THEN TextEmptyObject
            ELSE <<"{">> \o SerializeMembers(Serializable(v.m), 1, ind \o <<" ", " ">>)
                 \o <<"\n">> \o ind \o <<"}">>

JSONstringify(v) == Serialize(v, <<>>)

(***************************************************************************)
(* JSON.parse(text): a recursive-descent parser of the JSON grammar over   *)
(* the characters of the text.  A parse step returns [ok, v, i]: whether   *)
(* it succeeded, the value, and the position after it.  Numbers are        *)
(* integers (no leading zero); a repeated key keeps its last value.        *)
(***************************************************************************)
ParseFailed == [v |-> Undefined, i |-> 0, ok |-> FALSE]

Parsed(v, i) == [v |-> v, i |-> i, ok |-> TRUE]

CharAt(t, i) == IF i >= 1 /\ i <= Len(t) THEN t[i] ELSE "<eof>"

RECURSIVE SkipWhiteSpace(_, _)
SkipWhiteSpace(t, i) ==
    IF IsWhiteSpace(CharAt(t, i)) THEN SkipWhiteSpace(t, i + 1) ELSE i

Matches(t, i, word) ==
    /\ i + Len(word) - 1 <= Len(t)
    /\ \A j \in 1..Len(word) : t[i + j - 1] = word[j]

RECURSIVE DigitsEnd(_, _)
DigitsEnd(t, i) == IF IsDigit(CharAt(t, i)) THEN DigitsEnd(t, i + 1) ELSE i

ParseNumber(t, i) ==
    LET neg == CharAt(t, i) = "-"
        first == IF neg THEN i + 1 ELSE i
        last == DigitsEnd(t, first)
    IN  IF last = first THEN ParseFailed
        ELSE IF CharAt(t, first) = "0" /\ last > first + 1 THEN ParseFailed
        ELSE IF CharAt(t, last) \in {".", "e", "E"} THEN ParseFailed
        ELSE Parsed(Num((IF neg THEN -1 ELSE 1)
                        * DecimalValue(SubSeq(t, first, last - 1))), last)

RECURSIVE QuoteEnd(_, _)
QuoteEnd(t, i) ==
    IF CharAt(t, i) \in {"\"", "<eof>", "\\", "\n", "\t", "\r"} THEN i
    ELSE QuoteEnd(t, i + 1)

\* t[i] is the opening quote
ParseString(t, i) ==
    LET close == QuoteEnd(t, i + 1)
    IN  IF CharAt(t, close) = "\"" THEN Parsed(Str(SubSeq(t, i + 1, close - 1)), close + 1)
        ELSE ParseFailed

RECURSIVE ParseValue(_, _)
RECURSIVE ParseElements(_, _, _)
RECURSIVE ParseMembers(_, _, _)
\* the elements of an array, from the element starting at i
ParseElements(t, i, acc) ==
    LET e == ParseValue(t, i)
        j == SkipWhiteSpace(t, e.i)
    IN  IF ~e.ok THEN ParseFailed
        ELSE IF CharAt(t, j) = "]" THEN Parsed(Arr(Append(acc, e.v)), j + 1)
        ELSE IF CharAt(t, j) = ","
             THEN ParseElements(t, SkipWhiteSpace(t, j + 1), Append(acc, e.v))
        ELSE ParseFailed

\* the members of an object, from the key starting at i
ParseMembers(t, i, acc) ==
    LET k == IF CharAt(t, i) = "\"" THEN ParseString(t, i) ELSE ParseFailed
        c == SkipWhiteSpace(t, k.i)
        e == IF k.ok /\ CharAt(t, c) = ":"
             THEN ParseValue(t, SkipWhiteSpace(t, c + 1)) ELSE ParseFailed
        j == SkipWhiteSpace(t, e.i)
    IN  IF ~e.ok THEN ParseFailed
        ELSE IF CharAt(t, j) = "}" THEN Parsed(Obj(PutMember(acc, k.v.s, e.v)), j + 1)
        ELSE IF CharAt(t, j) = ","
             THEN ParseMembers(t, SkipWhiteSpace(t, j + 1), PutMember(acc, k.v.s, e.v))
        ELSE ParseFailed

ParseValue(t, i) ==
    LET c == CharAt(t, i)
    IN  CASE c = "{" ->
                LET j == SkipWhiteSpace(t, i + 1)
                IN  IF CharAt(t, j) = "}" THEN Parsed(Obj(<<>>), j + 1)
                    ELSE ParseMembers(t, j, <<>>)
          [] c = "[" ->
                LET j == SkipWhiteSpace(t, i + 1)
                IN  IF CharAt(t, j) = "]" THEN Parsed(Arr(<<>>), j + 1)
                    ELSE ParseElements(t, j, <<>>)
          [] c = "\"" -> ParseString(t, i)
          [] c = "-" \/ IsDigit(c) -> ParseNumber(t, i)
          [] c = "t" -> IF Matches(t, i, TextTrue) THEN Parsed(Bool(TRUE), i + 4)
                        ELSE ParseFailed
          [] c = "f" -> IF Matches(t, i, TextFalse) THEN Parsed(Bool(FALSE), i + 5)
                        ELSE ParseFailed
          [] c = "n" -> IF Matches(t, i, TextNull) THEN Parsed(Null, i + 4)
                        ELSE ParseFailed
          [] OTHER -> ParseFailed

\* [ok, v]: ok is FALSE where JSON.parse throws a SyntaxError
JSONparse(text) ==
    LET r == ParseValue(text, SkipWhiteSpace(text, 1))
    IN  IF r.ok /\ SkipWhiteSpace(text, r.i) = Len(text) + 1
        THEN [v |-> r.v, ok |-> TRUE]
        ELSE [v |-> Undefined, ok |-> FALSE]

(***************************************************************************)
(* Equality of two values as JSON values: members compared by key, in any  *)
(* order.                                                                  *)
(***************************************************************************)
RECURSIVE SameValue(_, _)
SameValue(x, y) ==
    IF x = y THEN TRUE
    ELSE IF x.t # y.t THEN FALSE
    ELSE IF x.t = "array"
         THEN /\ Len(x.a) = Len(y.a)
              /\ \A i \in 1..Len(x.a) : SameValue(x.a[i], y.a[i])
    ELSE IF x.t = "object"
         THEN /\ KeysOf(x.m) = KeysOf(y.m)
              /\ \A k \in KeysOf(x.m) : SameValue(GetMember(x.m, k), GetMember(y.m, k))
    ELSE x = y

(***************************************************************************)
(* Rows, nodes and paths (types/graph: NodeRow, NodeData).                  *)
(* A row is [key, value, type]: key and value are JavaScript values, type  *)
(* is one of "string", "number", "boolean", "null", "array", "object".     *)
(* A path is a sequence of segments, each a string or a number value.      *)
(* A node is [text, path, some]; some = FALSE is the absent selectedNode   *)
(* (nodeData?.path and nodeData?.text are then undefined).  The node's id  *)
(* is read only as a rendering key and is left out.                        *)
(***************************************************************************)
Row(key, value, type) == [key |-> key, value |-> value, type |-> type]

Node(path, text) == [text |-> text, path |-> path, some |-> TRUE]

NoNode == [text |-> <<>>, path |-> <<>>, some |-> FALSE]

\* nodeData?.text ?? []
NodeText(nd) == IF nd.some THEN nd.text ELSE <<>>

\* nodeData?.path ?? []
NodePath(nd) == IF nd.some THEN nd.path ELSE <<>>

(***************************************************************************)
(* normalizeNodeData: the text shown for a node outside edit mode.         *)
(***************************************************************************)
RECURSIVE CollectRowsOfAnyType(_, _, _)
\* the forEach without its test of the row's type
CollectRowsOfAnyType(nodeRows, i, m) ==
    IF i > Len(nodeRows) THEN m
    ELSE LET row == nodeRows[i]
         IN  IF ~Falsy(row.key)
             THEN CollectRowsOfAnyType(nodeRows, i + 1,
                                       PutMember(m, StringOf(row.key), row.value))
             ELSE CollectRowsOfAnyType(nodeRows, i + 1, m)

RECURSIVE CollectRows(_, _, _)
\* nodeRows.forEach(row => ...) on obj
CollectRows(nodeRows, i, m) ==
    IF i > Len(nodeRows) THEN m
    ELSE LET row == nodeRows[i]
         IN  IF row.type # "array" /\ row.type # "object" /\ ~Falsy(row.key)
             THEN CollectRows(nodeRows, i + 1, PutMember(m, StringOf(row.key), row.value))
             ELSE CollectRows(nodeRows, i + 1, m)

normalizeNodeData(nodeRows) ==
    IF Len(nodeRows) = 0 THEN TextEmptyObject
    ELSE IF Len(nodeRows) = 1 /\ Falsy(nodeRows[1].key) THEN StringOf(nodeRows[1].value)
    ELSE JSONstringify(Obj(CollectRows(nodeRows, 1, <<>>)))

(***************************************************************************)
(* convertValueByType: the value stored for an edited text.                *)
(***************************************************************************)
convertValueByType(type, value) ==
    IF type = "number"
    THEN LET n == ToNumber(value) IN IF n.t = "nan" THEN Str(value) ELSE n
    ELSE IF type = "boolean" THEN Bool(value = TextTrue)
    ELSE IF type = "null" THEN Null
    ELSE Str(value)

(***************************************************************************)
(* acc[seg]: property lookup of a path segment on a value.                 *)
(* An object is looked up by the segment's text; an array and a string by  *)
(* index (or "length"); a number or a boolean has no own property.         *)
(***************************************************************************)
TextLength == <<"l", "e", "n", "g", "t", "h">>

\* the text of a property key is an array index
IsIndexKey(k) == AllDigits(k) /\ NatToText(DecimalValue(k)) = k

Lookup(v, seg) ==
    LET k == StringOf(seg)
    IN  CASE v.t = "object" -> GetMember(v.m, k)
          [] v.t = "array" ->
                IF k = TextLength THEN Num(Len(v.a))
                ELSE IF IsIndexKey(k) /\ DecimalValue(k) < Len(v.a)
                     THEN v.a[DecimalValue(k) + 1]
                ELSE Undefined
          [] v.t = "string" ->
                IF k = TextLength THEN Num(Len(v.s))
                ELSE IF IsIndexKey(k) /\ DecimalValue(k) < Len(v.s)
                     THEN Str(<<v.s[DecimalValue(k) + 1]>>)
                ELSE Undefined
          [] OTHER -> Undefined

(***************************************************************************)
(* The object to edit (handleSave): a reference into the parsed document,  *)
(* kept as [val, loc]: the value and the path of the place it is stored at *)
(* (loc = <<>> is the document root).                                      *)
(***************************************************************************)
Ref(val, loc) == [val |-> val, loc |-> loc]

RECURSIVE Reduce(_, _, _)
\* targetPath.reduce((acc, seg) => (acc ? acc[seg] : undefined), parsed), from segment i
Reduce(targetPath, i, acc) ==
    IF i > Len(targetPath) THEN acc
    ELSE Reduce(targetPath, i + 1,
                IF Falsy(acc.val) THEN Ref(Undefined, <<>>)
                ELSE Ref(Lookup(acc.val, targetPath[i]), Append(acc.loc, targetPath[i])))

ResolveTarget(parsed, targetPath) ==
    IF Len(targetPath) > 0
    THEN LET reduced == Reduce(targetPath, 1, Ref(parsed, <<>>))
         IN  IF Nullish(reduced.val) THEN Ref(parsed, <<>>) ELSE reduced
    ELSE Ref(parsed, <<>>)

RECURSIVE StoreAt(_, _, _)
\* the document with the value stored at place loc replaced by val
StoreAt(doc, loc, val) ==
    IF loc = <<>> THEN val
    ELSE LET k == StringOf(Head(loc))
         IN  IF doc.t = "object"
             THEN Obj(PutMember(doc.m, k, StoreAt(GetMember(doc.m, k), Tail(loc), val)))
             ELSE IF doc.t = "array" /\ IsIndexKey(k) /\ DecimalValue(k) < Len(doc.a)
             THEN Arr([doc.a EXCEPT ![DecimalValue(k) + 1] =
                                        StoreAt(doc.a[DecimalValue(k) + 1], Tail(loc), val)])
             ELSE doc

(***************************************************************************)
(* rows.forEach((r, idx) => ...) of handleSave, on the object to edit.     *)
(* Returns [ok, val]; ok = FALSE where a step throws a TypeError: the      *)
(* module is strict code, so deleting a property of null, and assigning a  *)
(* property of null or of a string, number or boolean, throw.  The keys    *)
(* of the model are no array indices, so on an array the delete and the    *)
(* assignment change nothing JSON.stringify prints.                        *)
(***************************************************************************)
\* delete objToEdit[key]
DeleteProperty(obj, key) ==
    IF Nullish(obj) THEN [ok |-> FALSE, val |-> obj]
    ELSE IF obj.t = "object" THEN [ok |-> TRUE, val |-> Obj(DeleteMember(obj.m, key))]
    ELSE [ok |-> TRUE, val |-> obj]

\* objToEdit[key] = value
AssignProperty(obj, key, value) ==
    IF obj.t = "object" THEN [ok |-> TRUE, val |-> Obj(PutMember(obj.m, key, value))]
    ELSE IF obj.t = "array" THEN [ok |-> TRUE, val |-> obj]
    ELSE [ok |-> FALSE, val |-> obj]

\* the callback without its "if (!r.key) return"
ApplyRowNoSkip(obj, r, idx, original) ==
    LET newKey == StringOf(r.key)
        newValue == convertValueByType(r.type, StringOf(r.value))
        renamed == /\ idx <= Len(original)
                   /\ ~Falsy(original[idx].key)
                   /\ original[idx].key # r.key
        deleted == IF renamed THEN DeleteProperty(obj, StringOf(original[idx].key))
                   ELSE [ok |-> TRUE, val |-> obj]
    IN  IF deleted.ok THEN AssignProperty(deleted.val, newKey, newValue)
        ELSE deleted

\* the body of the forEach callback for row r at index idx (from 1)
ApplyRow(obj, r, idx, original) ==
    IF Falsy(r.key) THEN [ok |-> TRUE, val |-> obj]
    ELSE LET newKey == StringOf(r.key)
             newValue == convertValueByType(r.type, StringOf(r.value))
             renamed == /\ idx <= Len(original)
                        /\ ~Falsy(original[idx].key)
                        /\ original[idx].key # r.key
             deleted == IF renamed THEN DeleteProperty(obj, StringOf(original[idx].key))
                        ELSE [ok |-> TRUE, val |-> obj]
         IN  IF deleted.ok THEN AssignProperty(deleted.val, newKey, newValue)
             ELSE deleted

RECURSIVE ApplyRows(_, _, _, _)
ApplyRows(obj, rs, idx, original) ==
    IF idx > Len(rs) THEN [ok |-> TRUE, val |-> obj]
    ELSE LET step == ApplyRow(obj, rs[idx], idx, original)
         IN  IF step.ok THEN ApplyRows(step.val, rs, idx + 1, original) ELSE step

(***************************************************************************)
(* The whole of handleSave's try block, as a function of what it reads:    *)
(* [ok, objToEdit, jsonStr]; ok = FALSE where the block throws.            *)
(***************************************************************************)
\* json || "{}"
JsonOrEmptyObject(text) == IF text = <<>> THEN TextEmptyObject ELSE text

SaveResult(text, nd, rs) ==
    LET parsed == JSONparse(JsonOrEmptyObject(text))
        objToEdit == ResolveTarget(parsed.v, NodePath(nd))
        edited == ApplyRows(objToEdit.val, rs, 1, NodeText(nd))
    IN  IF ~parsed.ok THEN [ok |-> FALSE, objToEdit |-> Ref(Undefined, <<>>), jsonStr |-> <<>>]
        ELSE IF ~edited.ok THEN [ok |-> FALSE, objToEdit |-> objToEdit, jsonStr |-> <<>>]
        ELSE [ok |-> TRUE,
              objToEdit |-> objToEdit,
              jsonStr |-> JSONstringify(StoreAt(parsed.v, objToEdit.loc, edited.val))]

(***************************************************************************)
(* The nodes the graph store derives from a document: one node per object  *)
(* (a row per member; a nested array or object is a row of that type),     *)
(* one per array (no rows) and one per value that is no member of an       *)
(* object (a single row without key).                                      *)
(***************************************************************************)
RECURSIVE MemberRows(_, _)
MemberRows(m, i) ==
    IF i > Len(m) THEN <<>>
    ELSE <<Row(Str(m[i].k), m[i].v, m[i].v.t)>> \o MemberRows(m, i + 1)

RECURSIVE NodesAt(_, _)
NodesAt(v, path) ==
    CASE v.t = "object" ->
            {Node(path, MemberRows(v.m, 1))}
            \cup UNION {NodesAt(v.m[i].v, Append(path, Str(v.m[i].k))) :
                          i \in {j \in 1..Len(v.m) : v.m[j].v.t \in {"array", "object"}}}
      [] v.t = "array" ->
            {Node(path, <<>>)}
            \cup UNION {NodesAt(v.a[i], Append(path, Num(i - 1))) : i \in 1..Len(v.a)}
      [] OTHER -> {Node(path, <<Row(Null, v, v.t)>>)}

\* the nodes of the document the store holds (none while its text is no JSON)
FreshNodes(text) ==
    LET parsed == JSONparse(text)
    IN  IF parsed.ok THEN NodesAt(parsed.v, <<>>) ELSE {}

(***************************************************************************)
(* Bounds and inputs of the model.                                         *)
(***************************************************************************)
\* row change events (key or value) in one run
MaxEdits == 2

\* Save clicks in one run
MaxSaves == 2

\* the keys typed into a key field
EditKeys == {<<>>, <<"a">>, <<"b">>, <<"c">>}

\* the texts typed into a value field
EditTexts == {<<"2">>, <<"x">>}

DocFlat == Obj(<<Member(<<"a">>, Num(1)), Member(<<"b">>, Str(<<"x">>))>>)

DocNested ==
    Obj(<<Member(<<"c">>, Obj(<<Member(<<"a">>, Null),
                               Member(<<"b">>, Arr(<<Num(2)>>))>>))>>)

DocArray ==
    Obj(<<Member(<<"a">>, Arr(<<Obj(<<Member(<<"b">>, Bool(TRUE))>>), Null>>))>>)

Docs == {DocFlat, DocNested, DocArray}

\* a document text cut short: no JSON
Truncated(text) == SubSeq(text, 1, Len(text) - 1)

\* the text of a document that replaced the one the selected node came from
StaleText == JSONstringify(Num(5))

(***************************************************************************)
(* State.                                                                  *)
(*   json        the document text of the store (useJson json, written by  *)
(*               useFile setContents)                                      *)
(*   hasChanges  the store's flag of unsaved changes                       *)
(*   nodeData    the selected node of the graph store                      *)
(*   editing, rows   the component's state (React.useState)                *)
(*   code        the text displayed outside edit mode                      *)
(*   objToEdit   the object to edit resolved by the last Save              *)
(*   writes      calls of setContents so far                               *)
(*   warnings    calls of console.warn so far                              *)
(*   edits       row change events so far                                  *)
(*   event       the handler that ran last: "mount", "effect", "edit",     *)
(*               "cancel", "key", "value", "save" (written), "failed"      *)
(*   savedKeys   history: per row index, the keys the successful saves     *)
(*               wrote for that row since the rows were last reset         *)
(***************************************************************************)
VARIABLES json, hasChanges, nodeData, editing, rows, code, objToEdit,
          writes, warnings, edits, event, savedKeys

vars == <<json, hasChanges, nodeData, editing, rows, code, objToEdit,
          writes, warnings, edits, event, savedKeys>>

NoKeys(rs) == [i \in 1..Len(rs) |-> {}]

\* the state after the component mounts on node nd over document text
Mounted(text, nd) ==
    /\ json = text
    /\ hasChanges = FALSE
    /\ nodeData = nd
    /\ editing = FALSE
    /\ rows = NodeText(nd)
    /\ code = normalizeNodeData(NodeText(nd))
    /\ objToEdit = Ref(Undefined, <<>>)
    /\ writes = 0
    /\ warnings = 0
    /\ edits = 0
    /\ event = "mount"
    /\ savedKeys = NoKeys(NodeText(nd))

Init ==
    \E doc \in Docs :
        \/ \E nd \in NodesAt(doc, <<>>) \cup {NoNode} : Mounted(JSONstringify(doc), nd)
        \/ \E nd \in NodesAt(doc, <<>>) : Mounted(Truncated(JSONstringify(doc)), nd)
        \/ \E nd \in NodesAt(doc, <<>>) : Mounted(StaleText, nd)
        \/ Mounted(<<>>, NoNode)

(***************************************************************************)
(* The effect on [nodeData?.id, nodeData?.text, opened]: the store selects *)
(* node nd (or the modal is reopened on the same node), the rows are reset *)
(* and edit mode is left; the node's text is displayed.                    *)
(***************************************************************************)
NodeEffect(nd) ==
    /\ nodeData' = nd
    /\ rows' = NodeText(nd)
    /\ editing' = FALSE
    /\ code' = normalizeNodeData(NodeText(nd))
    /\ event' = "effect"
    /\ savedKeys' = NoKeys(NodeText(nd))
    /\ UNCHANGED <<json, hasChanges, objToEdit, writes, warnings, edits>>

SelectNode == \E nd \in FreshNodes(json) : nd # nodeData /\ NodeEffect(nd)

Reopen == NodeEffect(nodeData)

\* the Edit button, shown outside edit mode
handleEdit ==
    /\ ~editing
    /\ editing' = TRUE
    /\ event' = "edit"
    /\ UNCHANGED <<json, hasChanges, nodeData, rows, code, objToEdit,
                   writes, warnings, edits, savedKeys>>

\* handleCancel without its setRows
handleCancelKeepsRows ==
    /\ editing
    /\ editing' = FALSE
    /\ savedKeys' = NoKeys(NodeText(nodeData))
    /\ event' = "cancel"
    /\ UNCHANGED <<json, hasChanges, nodeData, rows, code, objToEdit,
                   writes, warnings, edits>>

\* the Cancel button, shown in edit mode
handleCancel ==
    /\ editing
    /\ rows' = NodeText(nodeData)
    /\ editing' = FALSE
    /\ savedKeys' = NoKeys(NodeText(nodeData))
    /\ event' = "cancel"
    /\ UNCHANGED <<json, hasChanges, nodeData, code, objToEdit,
                   writes, warnings, edits>>

\* a row's inputs are rendered in edit mode for a row with a key
Rendered(idx) == editing /\ idx \in 1..Len(rows) /\ ~Falsy(rows[idx].key)

\* onChange of the Key input of row idx
ChangeKey(rs, idx, text) == [rs EXCEPT ![idx].key = Str(text)]

onChangeKey ==
    \E idx \in 1..Len(rows), text \in EditKeys :
        /\ Rendered(idx)
        /\ edits < MaxEdits
        /\ rows' = ChangeKey(rows, idx, text)
        /\ edits' = edits + 1
        /\ event' = "key"
        /\ UNCHANGED <<json, hasChanges, nodeData, editing, code, objToEdit,
                       writes, warnings, savedKeys>>

\* onChange of the Value input (text or colour) of row idx
ChangeValue(rs, idx, text) == [rs EXCEPT ![idx].value = Str(text)]

ValueChanged(texts) ==
    \E idx \in 1..Len(rows), text \in texts :
        /\ Rendered(idx)
        /\ rows[idx].type # "object" /\ rows[idx].type # "array"
        /\ edits < MaxEdits
        /\ rows' = ChangeValue(rows, idx, text)
        /\ edits' = edits + 1
        /\ event' = "value"
        /\ UNCHANGED <<json, hasChanges, nodeData, editing, code, objToEdit,
                       writes, warnings, savedKeys>>

onChangeValue == ValueChanged(EditTexts)

\* the keys a successful save wrote, row by row
WrittenKeys(rs, keys) ==
    [i \in 1..Len(rs) |->
        IF Falsy(rs[i].key) THEN keys[i] ELSE keys[i] \cup {StringOf(rs[i].key)}]

\* handleSave with setEditing(false) moved behind the try block
handleSaveAlwaysLeavesEditMode ==
    /\ editing
    /\ writes + warnings < MaxSaves
    /\ LET result == SaveResult(json, nodeData, rows)
       IN  IF result.ok
           THEN /\ json' = result.jsonStr
                /\ hasChanges' = TRUE
                /\ writes' = writes + 1
                /\ editing' = FALSE
                /\ objToEdit' = result.objToEdit
                /\ savedKeys' = WrittenKeys(rows, savedKeys)
                /\ event' = "save"
                /\ UNCHANGED <<nodeData, rows, code, warnings, edits>>
           ELSE /\ warnings' = warnings + 1
                /\ editing' = FALSE
                /\ objToEdit' = result.objToEdit
                /\ event' = "failed"
                /\ UNCHANGED <<json, hasChanges, nodeData, rows, code,
                               writes, edits, savedKeys>>

\* the Save button, shown in edit mode
handleSave ==
    /\ editing
    /\ writes + warnings < MaxSaves
    /\ LET result == SaveResult(json, nodeData, rows)
       IN  IF result.ok
           THEN \* setContents({ contents: jsonStr, hasChanges: true }); setEditing(false)
                /\ json' = result.jsonStr
                /\ hasChanges' = TRUE
                /\ writes' = writes + 1
                /\ editing' = FALSE
                /\ objToEdit' = result.objToEdit
                /\ savedKeys' = WrittenKeys(rows, savedKeys)
                /\ event' = "save"
                /\ UNCHANGED <<nodeData, rows, code, warnings, edits>>
           ELSE \* catch (e) { console.warn(...) }
                /\ warnings' = warnings + 1
                /\ objToEdit' = result.objToEdit
                /\ event' = "failed"
                /\ UNCHANGED <<json, hasChanges, nodeData, editing, rows, code,
                               writes, edits, savedKeys>>

Next ==
    \/ SelectNode
    \/ Reopen
    \/ handleEdit
    \/ handleCancel
    \/ onChangeKey
    \/ onChangeValue
    \/ handleSave

Spec == Init /\ [][Next]_vars

(***************************************************************************)
(* What the claims read.                                                   *)
(***************************************************************************)
\* the document a Save parses
InputDoc == JSONparse(JsonOrEmptyObject(json))

\* the value stored at place loc of a document (undefined when there is none)
ValueAt(doc, loc) == Reduce(loc, 1, Ref(doc, <<>>)).val

\* the members of a value (none unless it is an object)
Members(v) == IF v.t = "object" THEN v.m ELSE <<>>

\* the rows of rs that have a key
Keyed(rs) == {i \in 1..Len(rs) : ~Falsy(rs[i].key)}

\* the selected node is a node of the document the store holds
Consistent == nodeData \in FreshNodes(json)

\* C6: every Save either succeeds (the store receives once the
\* serialization of the fully edited copy with hasChanges = true, and edit
\* mode is left) or fails (no write, edit mode stays, rows unchanged); it
\* fails when the document text is no JSON, and a written document is never
\* a partially edited one.
C6_SaveAllOrNothing ==
    [][(event' \in {"save", "failed"})
        => LET full == SaveResult(json, nodeData, rows)
           IN  /\ editing
               /\ rows' = rows
               /\ \/ /\ full.ok
                     /\ writes' = writes + 1
                     /\ warnings' = warnings
                     /\ json' = full.jsonStr
                     /\ JSONparse(json').ok
                     /\ hasChanges'
                     /\ ~editing'
                  \/ /\ ~full.ok
                     /\ warnings' = warnings + 1
                     /\ writes' = writes
                     /\ json' = json
                     /\ hasChanges' = hasChanges
                     /\ editing'
               /\ ~InputDoc.ok => json' = json]_vars

\* one Save failed and a later one was written
C6_Witness == event = "save" /\ ~editing /\ hasChanges /\ writes = 1 /\ warnings = 1

\* C7: the store changes only in a successful Save; a row change replaces
\* only the row it is about; Cancel resets the rows to the node's text and
\* leaves edit mode, leaving the store and the node alone.
C7_EditsLocalUntilSaved ==
    [][/\ (json' # json \/ hasChanges' # hasChanges \/ writes' # writes)
            => event' = "save" /\ editing /\ InputDoc.ok
       /\ (event' \in {"key", "value"})
            => /\ Len(rows') = Len(rows)
               /\ \E idx \in 1..Len(rows) :
                      \A j \in 1..Len(rows) : j # idx => rows'[j] = rows[j]
               /\ nodeData' = nodeData
       /\ (event' = "cancel")
            => /\ rows' = NodeText(nodeData)
               /\ ~editing'
               /\ json' = json /\ hasChanges' = hasChanges /\ writes' = writes
               /\ nodeData' = nodeData]_vars

\* edited rows were discarded by Cancel after an earlier save
C7_Witness ==
    event = "cancel" /\ writes = 1 /\ edits = 2 /\ rows = NodeText(nodeData) /\ ~editing

\* the keys a save may touch: the keys of the rows that have one, and the
\* keys the original rows at their indices had
TouchedKeys(rs, original) ==
    {StringOf(rs[i].key) : i \in Keyed(rs)}
    \cup {StringOf(original[i].key) : i \in Keyed(rs) \cap Keyed(original)}

\* C3: a successful save leaves alone everything outside the object to
\* edit, and every key of it that is neither the key of an edited row nor
\* the key of the original row at that index; with no keyed row the
\* document keeps its value.
C3_SaveTouchesOnlyAddressed ==
    [][(event' = "save")
        => LET old == InputDoc.v
               new == JSONparse(json').v
               loc == ResolveTarget(old, NodePath(nodeData)).loc
               oldTarget == ValueAt(old, loc)
               newTarget == ValueAt(new, loc)
           IN  /\ SameValue(new, StoreAt(old, loc, newTarget))
               /\ oldTarget.t # "object" => SameValue(newTarget, oldTarget)
               /\ \A k \in (KeysOf(Members(oldTarget)) \cup KeysOf(Members(newTarget)))
                             \ TouchedKeys(rows, NodeText(nodeData)) :
                      SameValue(GetMember(Members(newTarget), k),
                                GetMember(Members(oldTarget), k))
               /\ Keyed(rows) = {} => SameValue(new, old)]_vars

\* a save renamed a key of a nested object and left its other member alone
C3_Witness ==
    /\ event = "save"
    /\ objToEdit.loc # <<>>
    /\ \E i \in Keyed(rows) : rows[i].key # NodeText(nodeData)[i].key
    /\ \E k \in KeysOf(Members(objToEdit.val)) :
           /\ k \notin TouchedKeys(rows, NodeText(nodeData))
           /\ HasKey(Members(ValueAt(JSONparse(json).v, objToEdit.loc)), k)

\* the value a save is to store for row r
Coerced(r) == convertValueByType(r.type, StringOf(r.value))

\* the object to edit before and after a save step
TargetBefore == ValueAt(InputDoc.v, ResolveTarget(InputDoc.v, NodePath(nodeData)).loc)

TargetAfter == ValueAt(JSONparse(json').v, ResolveTarget(InputDoc.v, NodePath(nodeData)).loc)

\* C1: a save of the unedited rows of a node of the document leaves the
\* document's value as it was.
C1_SaveIdempotent ==
    [][(event' = "save" /\ Consistent /\ rows = NodeText(nodeData))
        => SameValue(JSONparse(json').v, InputDoc.v)]_vars

\* C2: a save leaves the nested array or object of an array- or
\* object-typed row as it was, under the row's (possibly new) key.
C2_NestedRowsDisplayOnly ==
    [][(event' = "save" /\ Consistent)
        => \A i \in Keyed(rows) :
               rows[i].type \in {"array", "object"}
               => SameValue(GetMember(Members(TargetAfter), StringOf(rows[i].key)),
                            GetMember(Members(TargetBefore),
                                      StringOf(NodeText(nodeData)[i].key)))]_vars

\* the non-empty keys of the rows are pairwise distinct
DistinctKeys(rs) == \A i, j \in Keyed(rs) : i # j => rs[i].key # rs[j].key

\* row i of rs has another key than the original row at its index had
Renamed(rs, original, i) ==
    i \in Keyed(rs) \cap Keyed(original) /\ original[i].key # rs[i].key

\* C4: after a save of rows with pairwise distinct keys the object to edit
\* maps every keyed row's key to the row's coerced value, and holds the
\* original key of a renamed row only as the key of some edited row.
C4_KeyRename ==
    [][(event' = "save" /\ DistinctKeys(rows) /\ TargetBefore.t = "object")
        => \A i \in Keyed(rows) :
               /\ GetMember(Members(TargetAfter), StringOf(rows[i].key)) = Coerced(rows[i])
               /\ Renamed(rows, NodeText(nodeData), i)
                  /\ HasKey(Members(TargetAfter), StringOf(NodeText(nodeData)[i].key))
                  => \E j \in Keyed(rows) : rows[j].key = NodeText(nodeData)[i].key]_vars

RECURSIVE ClaimedWalk(_, _)
\* the value reached from v by the segments of path, each an own key of an
\* object or an index of an array; undefined when a segment is missing
ClaimedWalk(v, path) ==
    IF path = <<>> THEN v
    ELSE LET seg == Head(path)
         IN  IF v.t = "object" /\ seg.t = "string" /\ HasKey(v.m, seg.s)
             THEN ClaimedWalk(GetMember(v.m, seg.s), Tail(path))
             ELSE IF v.t = "array" /\ seg.t = "number" /\ seg.n >= 0 /\ seg.n < Len(v.a)
             THEN ClaimedWalk(v.a[seg.n + 1], Tail(path))
             ELSE Undefined

\* C8: the object to edit is the document for the empty path, the value
\* stored at the path when every segment is present, whatever that value
\* is, and the document when a segment is missing.
C8_PathResolution ==
    [][(event' \in {"save", "failed"} /\ InputDoc.ok)
        => objToEdit'.val =
             IF ClaimedWalk(InputDoc.v, NodePath(nodeData)).t = "undefined"
             THEN InputDoc.v
             ELSE ClaimedWalk(InputDoc.v, NodePath(nodeData))]_vars

\* C10: after a successful save, a key that an earlier save wrote for a row
\* which has a key now (the rows not having been reset since) is in the
\* object to edit only if a row has that key now.
C10_NoStaleKey ==
    (event = "save")
        => \A i \in Keyed(rows) : \A k \in savedKeys[i] :
               HasKey(Members(ValueAt(JSONparse(json).v, objToEdit.loc)), k)
               => \E j \in Keyed(rows) : StringOf(rows[j].key) = k

(***************************************************************************)
(* Coercion: a node with one keyed row of each editable type, its value    *)
(* field typed over once with any text of CoerceTexts, then saved.         *)
(***************************************************************************)
\* the length of the texts typed
MaxTextLen == 3

CoerceAlphabet == {"0", "1", "-", " ", "a"}

CoerceTexts ==
    UNION {[1..n -> CoerceAlphabet] : n \in 0..MaxTextLen}
    \cup {TextTrue, TextFalse, TextNull}

CoerceDocs ==
    {Obj(<<Member(<<"a">>, v)>>) : v \in {Num(1), Str(<<"x">>), Bool(FALSE), Null}}

InitCoerce ==
    \E doc \in CoerceDocs :
        Mounted(JSONstringify(doc), Node(<<>>, MemberRows(doc.m, 1)))

typeValue == edits = 0 /\ ValueChanged(CoerceTexts)

NextCoerce ==
    \/ handleEdit
    \/ typeValue
    \/ handleSave

SpecCoerce == InitCoerce /\ [][NextCoerce]_vars

\* the text is a numeric literal (white space around it aside)
IsNumericLiteral(text) ==
    TrimEnd(TrimStart(text)) # <<>> /\ ToNumber(text).t = "number"

\* the value the claim has a row of the type store for the text
ClaimedValue(type, text) ==
    CASE type = "number" -> IF IsNumericLiteral(text) THEN ToNumber(text) ELSE Str(text)
      [] type = "boolean" -> Bool(text = TextTrue)
      [] type = "null" -> Null
      [] OTHER -> Str(text)

\* C5: a save stores, for the text of a row's value field, the number the
\* text denotes or else the text itself (number), whether the text is
\* "true" (boolean), null (null), the text (any other type).
C5_TypeCoercion ==
    (event = "save")
        => \A i \in Keyed(rows) :
               GetMember(Members(JSONparse(json).v), StringOf(rows[i].key))
                 = ClaimedValue(rows[i].type, StringOf(rows[i].value))

(***************************************************************************)
(* Display: the store selects a node with any list of at most MaxRows rows *)
(* and the component displays it.                                          *)
(***************************************************************************)
MaxRows == 2

DisplayKeys == {Null, Str(<<>>), Str(<<"a">>), Str(<<"b">>)}

DisplayValues ==
    {Num(5), Str(<<"x">>), Bool(TRUE), Null, Arr(<<>>), Arr(<<Num(1), Num(2)>>), Obj(<<>>)}

DisplayRows == {Row(k, v, v.t) : k \in DisplayKeys, v \in DisplayValues}

DisplayRowLists == UNION {[1..n -> DisplayRows] : n \in 0..MaxRows}

InitDisplay == Mounted(TextEmptyObject, NoNode)

SelectAnyNode == ~nodeData.some /\ \E rs \in DisplayRowLists : NodeEffect(Node(<<>>, rs))

NextDisplay == SelectAnyNode

SpecDisplay == InitDisplay /\ [][NextDisplay]_vars

\* the rows the display keeps
Kept(rs) ==
    {i \in 1..Len(rs) : rs[i].type # "array" /\ rs[i].type # "object" /\ ~Falsy(rs[i].key)}

\* C9: the displayed text is {} for no rows, the plain text of the value for
\* a single row without key, and otherwise the 2-space-indented
\* serialization of the object of the rows that have a key and a type other
\* than array and object; the rows are left as they are.
C9_DisplayNormalization ==
    nodeData.some
        => LET rs == nodeData.text
               shown == JSONparse(code)
           IN  /\ rows = rs
               /\ IF Len(rs) = 0 THEN code = <<"{", "}">>
                  ELSE IF Len(rs) = 1 /\ Falsy(rs[1].key)
                  THEN /\ code = StringOf(rs[1].value)
                       /\ rs[1].value.t = "string" => code = rs[1].value.s
                  ELSE /\ shown.ok
                       /\ shown.v.t = "object"
                       /\ KeysOf(shown.v.m) = {StringOf(rs[i].key) : i \in Kept(rs)}
                       /\ \A i \in Kept(rs) :
                              (\A j \in Kept(rs) : j > i => rs[j].key # rs[i].key)
                              => GetMember(shown.v.m, StringOf(rs[i].key)) = rs[i].value
                       /\ code = JSONstringify(shown.v)
                       /\ Kept(rs) # {}
                          => SubSeq(code, 1, 5) = <<"{", "\n", " ", " ", "\"">>

\* a keyed array row is dropped from the display of a keyed number row
C9_Witness ==
    /\ nodeData.some
    /\ Len(nodeData.text) = 2
    /\ nodeData.text[1] = Row(Str(<<"a">>), Num(5), "number")
    /\ nodeData.text[2] = Row(Str(<<"b">>), Arr(<<>>), "array")
    /\ code = <<"{", "\n", " ", " ", "\"", "a", "\"", ":", " ", "5", "\n", "}">>

====
